---- MODULE Spec2Model ----
(***************************************************************************)
(* Model of library/scw_k8s_pool.py: the reconciliation of one Kapsule     *)
(* node pool (main), the payload projection (desired_payload), the diff    *)
(* (pool_matches), the status heuristics (extract_status, nodes_ready,     *)
(* sizes_reached) and the polling loop (wait_until).                       *)
(***************************************************************************)
EXTENDS Integers, Sequences, FiniteSets, TLC

(***************************************************************************)
(* JSON values.  Every value is a record whose field k names its Python    *)
(* type; the payload field has a different name per type, so that values   *)
(* of different types are unequal without comparing their payloads.        *)
(* A dict is a function from its keys to JSON values.                      *)
(***************************************************************************)
JNull == [k |-> "null"]
JStr(s) == [k |-> "str", s |-> s]
JInt(n) == [k |-> "int", n |-> n]
JBool(b) == [k |-> "bool", b |-> b]
JList(l) == [k |-> "list", l |-> l]
JDict(d) == [k |-> "dict", d |-> d]

EmptyDoc == [x \in {} |-> JNull]

IsStr(v) == v.k = "str"
IsDict(v) == v.k = "dict"
IsList(v) == v.k = "list"

\* d.get(key): the value under key, None when the key is missing
Get(d, key) == IF key \in DOMAIN d THEN d[key] ELSE JNull

\* d with d[key] = v added or replaced
Put(d, key, v) == [x \in DOMAIN d \cup {key} |-> IF x = key THEN v ELSE d[x]]

\* bool(v) of a JSON value
Truth(v) ==
  CASE v.k = "null" -> FALSE
    [] v.k = "bool" -> v.b
    [] v.k = "int" -> v.n # 0
    [] v.k = "str" -> v.s # ""
    [] v.k = "list" -> Len(v.l) > 0
    [] v.k = "dict" -> DOMAIN v.d # {}

\* a or b
PyOr(a, b) == IF Truth(a) THEN a ELSE b

\* a == b: Python compares a bool with an int by its numeric value
PyNum(v) == IF v.k = "bool" THEN JInt(IF v.b THEN 1 ELSE 0) ELSE v
PyEq(a, b) == PyNum(a) = PyNum(b)

\* s.lower() on the strings the model uses
Lower(s) ==
  CASE s = "Ready" -> "ready"
    [] s = "READY" -> "ready"
    [] s = "ERROR" -> "error"
    [] s = "Creating" -> "creating"
    [] s = "True" -> "true"
    [] s = "False" -> "false"
    [] s = "None" -> "none"
    [] OTHER -> s

\* str(n) of a small integer
IntStr(n) ==
  CASE n = 0 -> "0" [] n = 1 -> "1" [] n = 2 -> "2" [] n = 3 -> "3"
    [] n = 4 -> "4" [] OTHER -> "<int>"

\* str(v)
PyStr(v) ==
  CASE v.k = "null" -> "None"
    [] v.k = "bool" -> (IF v.b THEN "True" ELSE "False")
    [] v.k = "int" -> IntStr(v.n)
    [] v.k = "str" -> v.s
    [] v.k = "list" -> (IF Len(v.l) = 0 THEN "[]" ELSE "[..]")
    [] v.k = "dict" -> (IF DOMAIN v.d = {} THEN "{}" ELSE "{..}")

\* json.dumps(v) of a dict: a text that starts with a brace
JsonDumps(v) == IF DOMAIN v.d = {} THEN "{}" ELSE "{..}"

\* index of the first element of seq satisfying Test, 0 if there is none
FirstIdx(seq, Test(_)) ==
  IF \E i \in 1..Len(seq) : Test(seq[i])
    THEN CHOOSE i \in 1..Len(seq) :
           Test(seq[i]) /\ \A j \in 1..(i - 1) : ~Test(seq[j])
    ELSE 0

\* results of a function that may raise
Ret(v) == [exc |-> FALSE, val |-> v]
Raised == [exc |-> TRUE]

(***************************************************************************)
(* desired_payload                                                         *)
(***************************************************************************)
\* if params.get(key) is not None: payload[key] = params[key]
PutIfSet(payload, params, key) ==
  IF Get(params, key) # JNull THEN Put(payload, key, params[key]) ELSE payload

\* the root_volume sub-document of the payload
RootVolume(params) ==
  LET base == [type |-> params["root_volume_type"]]
  IN IF Truth(Get(params, "root_volume_size"))
       THEN Put(base, "size", params["root_volume_size"])
       ELSE base

\* SizingFields with the fixed size emitted in both branches
SizingFields_AlwaysSize(payload, params) ==
  IF Truth(params["autoscaling"])
    THEN PutIfSet(PutIfSet(PutIfSet(Put(payload, "autoscaling", JBool(TRUE)),
                                    params, "min_size"), params, "max_size"),
                  params, "size")
    ELSE PutIfSet(Put(payload, "autoscaling", JBool(FALSE)), params, "size")

\* the branch on params["autoscaling"]: which sizing fields are emitted
SizingFields(payload, params) ==
  IF Truth(params["autoscaling"])
    THEN PutIfSet(PutIfSet(Put(payload, "autoscaling", JBool(TRUE)),
                           params, "min_size"), params, "max_size")
    ELSE PutIfSet(Put(payload, "autoscaling", JBool(FALSE)), params, "size")

desired_payload(params) ==
  LET base == [name |-> params["name"],
               node_type |-> params["node_type"],
               container_runtime |-> params["container_runtime"],
               root_volume |-> JDict(RootVolume(params)),
               autohealing |-> params["autohealing"],
               public_ip_disabled |-> params["public_ip_disabled"],
               project_id |-> params["project_id"]]
      tagged == IF Truth(Get(params, "tags"))
                  THEN Put(base, "tags", params["tags"])
                  ELSE base
  IN SizingFields(tagged, params)

(***************************************************************************)
(* pool_matches                                                            *)
(***************************************************************************)
\* the order of the tag strings under Python's string comparison
StrRank(s) ==
  CASE s = "a" -> 1 [] s = "b" -> 2 [] s = "c" -> 3 [] OTHER -> 4

RECURSIVE InsertSorted(_, _)
InsertSorted(x, seq) ==
  IF seq = <<>> THEN <<x>>
  ELSE IF StrRank(x.s) <= StrRank(Head(seq).s) THEN <<x>> \o seq
  ELSE <<Head(seq)>> \o InsertSorted(x, Tail(seq))

\* sorted(l) of a list of strings
RECURSIVE Sorted(_)
Sorted(l) == IF l = <<>> THEN <<>> ELSE InsertSorted(Head(l), Sorted(Tail(l)))

\* GetPath that stops at the first key
GetPath_Shallow(d, k1, k2) == Get(d, k1)

\* the inner get(d, k1, k2): None when a key on the path is missing
GetPath(d, k1, k2) ==
  LET cur == Get(d, k1)
  IN IF IsDict(cur) THEN Get(cur.d, k2) ELSE JNull

\* get(pool, "tags", default=[])
GetTags(pool) == IF "tags" \in DOMAIN pool THEN pool["tags"] ELSE JList(<<>>)

\* TagsSame comparing the two lists as they come
TagsSame_Unsorted(pool, want) == GetTags(pool).l = want["tags"].l

\* the tags comparison of pool_matches
TagsSame(pool, want) == Sorted(GetTags(pool).l) = Sorted(want["tags"].l)

pool_matches(pool, params) ==
  LET want == desired_payload(params)
  IN IF DOMAIN pool = {} THEN FALSE
     ELSE /\ PyEq(Get(pool, "name"), want["name"])
          /\ PyEq(Get(pool, "node_type"), want["node_type"])
          /\ PyEq(Get(pool, "container_runtime"), want["container_runtime"])
          /\ PyEq(GetPath(pool, "root_volume", "type"), want["root_volume"].d["type"])
          /\ ("size" \in DOMAIN want => PyEq(Get(pool, "size"), want["size"]))
          /\ Truth(Get(pool, "autoscaling")) = Truth(want["autoscaling"])
          /\ (Truth(want["autoscaling"]) =>
                /\ ("min_size" \in DOMAIN want =>
                      PyEq(Get(pool, "min_size"), want["min_size"]))
                /\ ("max_size" \in DOMAIN want =>
                      PyEq(Get(pool, "max_size"), want["max_size"])))
          /\ Truth(Get(pool, "autohealing")) = Truth(want["autohealing"])
          /\ Truth(Get(pool, "public_ip_disabled")) = Truth(want["public_ip_disabled"])
          /\ ("tags" \in DOMAIN want => TagsSame(pool, want))
          /\ ("size" \in DOMAIN want["root_volume"].d =>
                PyEq(GetPath(pool, "root_volume", "size"), want["root_volume"].d["size"]))

(***************************************************************************)
(* Status heuristics                                                       *)
(***************************************************************************)
READY_VALUES == {"ready", "available", "running", "active", "stable"}
FAIL_VALUES == {"error", "failed", "degraded"}

\* the keys _as_lower_str looks for in a dict, in order
LowerStrKeys == <<"name", "state", "phase", "status", "value">>

_as_lower_str(v) ==
  CASE v.k = "null" -> ""
    [] v.k = "str" -> Lower(v.s)
    [] v.k = "dict" ->
         (LET IsStrKey(key) == key \in DOMAIN v.d /\ IsStr(v.d[key])
              i == FirstIdx(LowerStrKeys, IsStrKey)
          IN IF i # 0 THEN Lower(v.d[LowerStrKeys[i]].s)
             ELSE Lower(JsonDumps(v)))
    [] OTHER -> Lower(PyStr(v))

TruthyWords == {"true", "1", "yes", "ready"}

\* _truthy as the truth value of v itself
_truthy_Bool(v) == Truth(v)

_truthy(v) == Lower(PyStr(v)) \in TruthyWords

\* the unwrapping of an enveloped answer {"pool": {...}}
Unwrap(pool) == IF IsDict(Get(pool, "pool")) THEN pool["pool"].d ELSE pool

TopStatusKeys == <<"status", "pool_status", "phase">>
NestedStatusKeys == <<"name", "state", "phase", "status">>
CondKeys == <<"conditions", "pool_conditions", "node_pool_conditions">>

\* the entries of the condition lists of p, in the order the loops visit them
RECURSIVE CondEntries(_, _)
CondEntries(p, i) ==
  IF i > Len(CondKeys) THEN <<>>
  ELSE (IF IsList(Get(p, CondKeys[i])) THEN p[CondKeys[i]].l ELSE <<>>)
         \o CondEntries(p, i + 1)

\* an entry c for which c.get(...) raises, or for which the Ready test holds
CondStops(c) ==
  \/ ~IsDict(c)
  \/ /\ _as_lower_str(Get(c.d, "type")) = "ready"
     /\ _as_lower_str(Get(c.d, "status")) \in {"true", "1", "ready"}

\* extract_status after the early return on an empty document
ExtractFrom(p) ==
  LET InP(key) == key \in DOMAIN p
      top == FirstIdx(TopStatusKeys, InP)
      status_obj == Get(p, "status")
      InObj(key) == key \in DOMAIN status_obj.d
      nested == IF IsDict(status_obj) THEN FirstIdx(NestedStatusKeys, InObj) ELSE 0
      entries == CondEntries(p, 1)
      stop == FirstIdx(entries, CondStops)
  IN IF top # 0 THEN Ret(_as_lower_str(p[TopStatusKeys[top]]))
     ELSE IF nested # 0 THEN Ret(_as_lower_str(status_obj.d[NestedStatusKeys[nested]]))
     ELSE IF stop # 0
       THEN (IF IsDict(entries[stop]) THEN Ret("ready") ELSE Raised)
     ELSE IF _truthy(Get(p, "ready")) THEN Ret("ready")
     ELSE Ret("")

extract_status(pool) ==
  IF DOMAIN pool = {} THEN Ret("") ELSE ExtractFrom(Unwrap(pool))

\* the outcome of one iteration of the loop of nodes_ready over node n
NodeClass(n) ==
  IF ~IsDict(n) THEN "raise"
  ELSE LET st == _as_lower_str(Get(n.d, "status"))
           conds == Get(n.d, "conditions")
           IsReadyOrBad(c) == ~IsDict(c) \/ _as_lower_str(Get(c.d, "type")) = "ready"
           i == IF IsList(conds) THEN FirstIdx(conds.l, IsReadyOrBad) ELSE 0
       IN IF st \in FAIL_VALUES THEN "fail"
          ELSE IF st \in READY_VALUES THEN "ready"
          ELSE IF i = 0 THEN "notready"
          ELSE IF ~IsDict(conds.l[i]) THEN "raise"
          ELSE IF DOMAIN conds.l[i].d # {} /\ _truthy(Get(conds.l[i].d, "status"))
            THEN "ready"
          ELSE "notready"

nodes_ready(pool) ==
  LET nodes == PyOr(Get(pool, "nodes"), Get(pool, "node_pool_nodes"))
      Stops(n) == NodeClass(n) \in {"raise", "fail"}
      i == IF IsList(nodes) THEN FirstIdx(nodes.l, Stops) ELSE 0
  IN IF ~IsList(nodes) \/ ~Truth(nodes) THEN Ret(FALSE)
     ELSE IF i # 0
       THEN (IF NodeClass(nodes.l[i]) = "raise" THEN Raised ELSE Ret(FALSE))
     ELSE Ret(\A j \in 1..Len(nodes.l) : NodeClass(nodes.l[j]) = "ready")

\* int(v): the integer, or the failure of the conversion
NumStrings == {"0", "1", "2", "3", "4"}
ParseInt(s) == CHOOSE n \in 0..4 : IntStr(n) = s
PyInt(v) ==
  CASE v.k = "int" -> Ret(v.n)
    [] v.k = "bool" -> Ret(IF v.b THEN 1 ELSE 0)
    [] v.k = "str" /\ v.s \in NumStrings -> Ret(ParseInt(v.s))
    [] OTHER -> Raised

\* len(nodes) inside its try block: None when len() raises
LenOrNone(nodes) ==
  CASE nodes.k = "list" -> JInt(Len(nodes.l))
    [] nodes.k = "dict" -> JInt(Cardinality(DOMAIN nodes.d))
    [] OTHER -> JNull

\* the two counts sizes_reached compares
DesiredCount(pool) ==
  PyOr(PyOr(Get(pool, "desired_size"), Get(pool, "desiredNodes")), Get(pool, "size"))

CurrentCount(pool) ==
  LET current == PyOr(PyOr(Get(pool, "current_size"), Get(pool, "currentNodes")),
                      Get(pool, "size"))
  IN IF current = JNull
       THEN LenOrNone(PyOr(Get(pool, "nodes"), JList(<<>>)))
       ELSE current

sizes_reached(pool) ==
  LET desired == DesiredCount(pool)
      current == CurrentCount(pool)
  IN IF DOMAIN pool = {} THEN FALSE
     ELSE /\ desired # JNull
          /\ current # JNull
          /\ ~PyInt(current).exc
          /\ ~PyInt(desired).exc
          /\ PyInt(current).val >= PyInt(desired).val

(***************************************************************************)
(* Inputs: module parameters and backend answers                           *)
(***************************************************************************)
MaxTimeout == 2
MaxInterval == 1
\* the clock is observed up to one tick past the largest deadline
MaxNow == MaxTimeout + 1

\* module.params: every option is present, None when it was not given
MkParams(node_type, size, autoscaling, min_size, max_size, tags, rv_size, autohealing) ==
  [name |-> JStr("pool-a"),
   node_type |-> node_type,
   size |-> size,
   autoscaling |-> autoscaling,
   min_size |-> min_size,
   max_size |-> max_size,
   container_runtime |-> JStr("containerd"),
   root_volume_type |-> JStr("l_ssd"),
   root_volume_size |-> rv_size,
   autohealing |-> autohealing,
   public_ip_disabled |-> JBool(FALSE),
   tags |-> tags,
   project_id |-> JStr("proj")]

NodeTypes == {JStr("DEV1-M"), JStr("GP1-XS")}
TagLists == {JNull, JList(<<>>), JList(<<JStr("a"), JStr("b")>>), JList(<<JStr("b"), JStr("a")>>)}

\* the specifications the pure functions are applied to
DesiredSpecs ==
  {MkParams(nt, sz, JBool(au), mn, mx, tg, rv, JBool(ah)) :
     nt \in NodeTypes, sz \in {JNull, JInt(0), JInt(2)}, au \in BOOLEAN,
     mn \in {JNull, JInt(1)}, mx \in {JNull, JInt(3)}, tg \in TagLists,
     rv \in {JNull, JInt(0), JInt(3)}, ah \in BOOLEAN}

\* the specifications main is run with
FixedSpec == MkParams(JStr("DEV1-M"), JInt(2), JBool(FALSE), JNull, JNull,
                      JList(<<JStr("a"), JStr("b")>>), JNull, JBool(TRUE))
PermutedSpec == MkParams(JStr("DEV1-M"), JInt(2), JBool(FALSE), JNull, JNull,
                         JList(<<JStr("b"), JStr("a")>>), JNull, JBool(TRUE))
OtherTypeSpec == MkParams(JStr("GP1-XS"), JInt(2), JBool(FALSE), JNull, JNull,
                          JList(<<JStr("a"), JStr("b")>>), JNull, JBool(TRUE))
AutoSpec == MkParams(JStr("DEV1-M"), JNull, JBool(TRUE), JInt(1), JInt(3),
                     JNull, JInt(3), JBool(TRUE))
MainSpecs == {FixedSpec, PermutedSpec, OtherTypeSpec, AutoSpec}

\* a pool as the backend lists it: the stored payload plus id and status
LivePool(params) ==
  Put(Put(desired_payload(params), "id", JStr("p1")), "status", JStr("ready"))
OtherPool == Put(Put(LivePool(FixedSpec), "name", JStr("pool-b")), "id", JStr("p2"))

PoolLists ==
  {<<>>, <<JDict(OtherPool)>>}
    \cup {<<JDict(LivePool(q))>> : q \in MainSpecs}
    \cup {<<JDict(OtherPool), JDict(LivePool(q))>> : q \in MainSpecs}

Resp(code, body) == [code |-> code, body |-> body]

ListResponses ==
  {Resp(200, JDict([pools |-> JList(l)])) : l \in PoolLists}
    \cup {Resp(200, JList(<<JDict(LivePool(FixedSpec))>>)),
          Resp(200, JDict(EmptyDoc)),
          Resp(500, JDict(EmptyDoc))}

CreateResponses ==
  {Resp(200, JDict([id |-> JStr("p1"), status |-> JStr("creating")])),
   Resp(200, JDict([pool |-> JDict([id |-> JStr("p1")])])),
   Resp(200, JDict([status |-> JStr("creating")])),
   Resp(500, JDict(EmptyDoc))}

PatchResponses ==
  {Resp(200, JDict([id |-> JStr("p1"), status |-> JStr("updating")])),
   Resp(500, JDict(EmptyDoc))}

DeleteResponses ==
  {Resp(204, JNull), Resp(404, JNull), Resp(200, JDict(EmptyDoc)),
   Resp(403, JNull), Resp(500, JNull)}

ReadyNode == JDict([status |-> JStr("ready")])

\* the documents a poll may return
Snapshots ==
  {[id |-> JStr("p1"), status |-> JStr("creating")],
   [id |-> JStr("p1"), status |-> JStr("pending")],
   [id |-> JStr("p1"), status |-> JStr("Ready")],
   [id |-> JStr("p1"), status |-> JStr("error")],
   [id |-> JStr("p1"), status |-> JStr("error"), size |-> JInt(2)],
   [id |-> JStr("p1"), status |-> JStr("failed"), nodes |-> JList(<<ReadyNode>>)],
   [id |-> JStr("p1"), status |-> JStr("creating"), size |-> JInt(2)],
   [id |-> JStr("p1"), status |-> JStr("creating"), nodes |-> JList(<<ReadyNode>>)],
   [id |-> JStr("p1"), desired_size |-> JInt(3), current_size |-> JInt(3)],
   [id |-> JStr("p1"), desired_size |-> JInt(3), current_size |-> JInt(1)],
   [pool |-> JDict([status |-> JStr("degraded")])],
   [id |-> JStr("p1"), conditions |-> JList(<<JStr("Ready")>>)]}

PollResponses ==
  {Resp(200, JDict(doc)) : doc \in Snapshots}
    \cup {Resp(404, JNull), Resp(500, JNull)}

NoPoll == Resp(0, JNull)

(***************************************************************************)
(* ScalewayAPI                                                             *)
(***************************************************************************)
\* _raise_for_status returns without raising
StatusOk(code) == 200 <= code /\ code < 300

\* list_pools on a 2xx answer: the list under "pools", a bare list, or []
list_pools(body) ==
  IF IsDict(body) /\ "pools" \in DOMAIN body.d THEN body.d["pools"].l
  ELSE IF IsList(body) THEN body.l
  ELSE <<>>

\* get_pool returns None instead of raising
GetIsNone(code) == code = 404

\* delete_pool returns True instead of raising
\* DeleteOk without the exception made for 404
DeleteOk_NotFoundRaises(code) == StatusOk(code)

DeleteOk(code) == code \in {204, 404} \/ StatusOk(code)

(***************************************************************************)
(* State                                                                   *)
(***************************************************************************)
VARIABLES
  pc,            \* position of the run
  params,        \* module.params: the projected options
  state,         \* "present" or "absent"
  wait,          \* params["wait"]
  wait_timeout,  \* params["wait_timeout"]
  wait_interval, \* params["wait_interval"]
  check_mode,    \* module.check_mode
  pools,         \* the answer of list_pools
  cur_pool,      \* the listed pool with the target name, or None
  cur_id,        \* its id
  spec,          \* the projected payload
  calls,         \* the list, create, patch and delete calls issued, in order
  polled,        \* a get_pool call has been issued
  desired_state, \* wait_until: "ready" or "absent"
  now,           \* time.time()
  deadline,      \* wait_until: deadline
  last_status,   \* wait_until: last_status
  last_snapshot, \* wait_until: last_snapshot
  verdict,       \* the return statement wait_until left through
  lastPoll,      \* the answer to the latest get_pool call
  allNone,       \* every answer so far was 404
  allCreating,   \* every answer so far was a document with status "creating"
  allQuiet,      \* ... for which neither sizes_reached nor nodes_ready held
  sawConverged,  \* some answer made the readiness test of wait_until true
  returnedAt,    \* the clock when wait_until returned
  outcome,       \* what exit_json or fail_json reported
  pool,          \* the document a pure function is applied to
  result         \* what the function returned, or that it raised

vars == <<pc, params, state, wait, wait_timeout, wait_interval, check_mode,
          pools, cur_pool, cur_id, spec, calls, polled, desired_state, now, deadline,
          last_status, last_snapshot, verdict, lastPoll, allNone, allCreating,
          allQuiet, sawConverged, returnedAt, outcome, pool, result>>

inputVars == <<params, state, wait, wait_timeout, wait_interval, check_mode>>
pureVars == <<pool, result>>
waitVars == <<desired_state, deadline, last_status, last_snapshot, verdict,
              lastPoll, allNone, allCreating, allQuiet, sawConverged, returnedAt>>

NoOutcome == [kind |-> "none", changed |-> FALSE, msg |-> "", last |-> ""]
Exit(changed) == [kind |-> "exit", changed |-> changed, msg |-> "", last |-> ""]
Fail(msg, last) == [kind |-> "fail", changed |-> FALSE, msg |-> msg, last |-> last]

\* the return of a pure function: a string, a boolean, or an exception
Result(fn, exc, str, bool) == [fn |-> fn, exc |-> exc, str |-> str, bool |-> bool]
NoResult == Result("", FALSE, "", FALSE)

\* a call issued to the backend and the status code it was answered with
Call(op, id, payload, code) == [op |-> op, id |-> id, payload |-> payload, code |-> code]

InitRest ==
  /\ pools = <<>>
  /\ cur_pool = JNull
  /\ cur_id = JNull
  /\ spec = EmptyDoc
  /\ calls = <<>>
  /\ polled = FALSE
  /\ desired_state = ""
  /\ now = 0
  /\ deadline = 0
  /\ last_status = ""
  /\ last_snapshot = JNull
  /\ verdict = ""
  /\ lastPoll = NoPoll
  /\ allNone = TRUE
  /\ allCreating = TRUE
  /\ allQuiet = TRUE
  /\ sawConverged = FALSE
  /\ returnedAt = 0
  /\ outcome = NoOutcome
  /\ pool = EmptyDoc
  /\ result = NoResult

Init ==
  /\ pc = "start"
  /\ params \in MainSpecs
  /\ state \in {"present", "absent"}
  /\ wait \in BOOLEAN
  /\ wait_timeout \in 0..MaxTimeout
  /\ wait_interval \in 0..MaxInterval
  /\ check_mode \in BOOLEAN
  /\ InitRest

(***************************************************************************)
(* wait_until                                                              *)
(***************************************************************************)
\* the loop condition with the deadline itself still open
BeforeDeadline_Inclusive(t, d) == t <= d

\* the loop condition: time.time() < deadline
BeforeDeadline(t, d) == t < d

\* st in READY_VALUES or sizes_reached(p) or nodes_ready(p), left to right
ReadyTest(st, p) ==
  IF st \in READY_VALUES \/ sizes_reached(p) THEN Ret(TRUE) ELSE nodes_ready(p)

\* Classify without the test of the failed set
Classify_FailedKeepsPolling(p) ==
  LET st == extract_status(p)
  IN IF st.exc THEN "raise"
     ELSE IF ReadyTest(st.val, p).exc THEN "raise"
     ELSE IF ReadyTest(st.val, p).val THEN "Converged"
     ELSE "sleep"

\* what the loop body does with a document p: the tests in source order
Classify(p) ==
  LET st == extract_status(p)
  IN IF st.exc THEN "raise"
     ELSE IF ReadyTest(st.val, p).exc THEN "raise"
     ELSE IF ReadyTest(st.val, p).val THEN "Converged"
     ELSE IF st.val \in FAIL_VALUES THEN "Failed"
     ELSE "sleep"

\* PollOutcome with a 404 ending the wait for a present pool as a failure
PollOutcome_NotFoundFails(target, resp) ==
  IF ~GetIsNone(resp.code) /\ ~StatusOk(resp.code) THEN "raise"
  ELSE IF target = "absent"
    THEN (IF GetIsNone(resp.code) THEN "Absent" ELSE "sleep")
  ELSE IF GetIsNone(resp.code) THEN "Failed"
  ELSE Classify(resp.body.d)

\* PollOutcome with the status of the document consulted for an absent target
PollOutcome_AbsentClassifies(target, resp) ==
  IF ~GetIsNone(resp.code) /\ ~StatusOk(resp.code) THEN "raise"
  ELSE IF GetIsNone(resp.code)
    THEN (IF target = "absent" THEN "Absent" ELSE "sleep")
  ELSE Classify(resp.body.d)

\* PollOutcome with an error answer polled again after the sleep
PollOutcome_ErrorsRetried(target, resp) ==
  IF ~GetIsNone(resp.code) /\ ~StatusOk(resp.code) THEN "sleep"
  ELSE IF target = "absent"
    THEN (IF GetIsNone(resp.code) THEN "Absent" ELSE "sleep")
  ELSE IF GetIsNone(resp.code) THEN "sleep"
  ELSE Classify(resp.body.d)

\* what the loop body does with the answer to get_pool
PollOutcome(target, resp) ==
  IF ~GetIsNone(resp.code) /\ ~StatusOk(resp.code) THEN "raise"
  ELSE IF target = "absent"
    THEN (IF GetIsNone(resp.code) THEN "Absent" ELSE "sleep")
  ELSE IF GetIsNone(resp.code) THEN "sleep"
  ELSE Classify(resp.body.d)

\* a or b on strings
StrOr(a, b) == IF a # "" THEN a ELSE b

\* the status token of an answer that carries a document, "" otherwise
TokenOf(resp) ==
  IF StatusOk(resp.code) /\ ~extract_status(resp.body.d).exc
    THEN extract_status(resp.body.d).val
    ELSE ""

\* the answer is a document for which neither structural signal holds
Quiet(resp) ==
  /\ StatusOk(resp.code)
  /\ ~sizes_reached(resp.body.d)
  /\ nodes_ready(resp.body.d) = Ret(FALSE)

(***************************************************************************)
(* main                                                                    *)
(***************************************************************************)
\* next((p for p in pools if p.get("name") == name), None)
FindByName(listed, name) ==
  LET Named(p) == PyEq(Get(p.d, "name"), name)
      i == FirstIdx(listed, Named)
  IN IF i = 0 THEN JNull ELSE listed[i]

\* created.get("id") or (created.get("pool") or {}).get("id")
CreatedId(created) ==
  PyOr(Get(created, "id"), Get(PyOr(Get(created, "pool"), JDict(EmptyDoc)).d, "id"))

\* the guard of the wait after create_pool without the test of wait
WaitsAfterCreate_IgnoresWait(w, pool_id) == Truth(pool_id)

\* the guard of the wait after create_pool
WaitsAfterCreate(w, pool_id) == w /\ Truth(pool_id)

\* AfterWait without the test of ok
AfterWait_IgnoresOk(target, ok, last) == Exit(TRUE)

\* what main reports once wait_until has returned (ok, last)
AfterWait(target, ok, last) ==
  IF ok THEN Exit(TRUE)
  ELSE IF target = "absent" THEN Fail("timeout", "")
  ELSE Fail("timeout", StrOr(last, "inconnu"))

\* the call of wait_until: the deadline is taken and the loop is entered
StartWait(target) ==
  /\ desired_state' = target
  /\ deadline' = now + wait_timeout
  /\ last_status' = ""
  /\ last_snapshot' = JNull
  /\ pc' = "wait_loop"
  /\ outcome' = outcome
  /\ UNCHANGED <<verdict, lastPoll, allNone, allCreating, allQuiet, sawConverged,
                 returnedAt>>

\* exit_json or fail_json: the run ends
Finish(o) ==
  /\ outcome' = o
  /\ pc' = "done"
  /\ UNCHANGED waitVars

ListPools ==
  /\ pc = "start"
  /\ \E resp \in ListResponses :
       /\ calls' = Append(calls, Call("list", JNull, EmptyDoc, resp.code))
       /\ IF StatusOk(resp.code)
            THEN LET found == FindByName(list_pools(resp.body), params["name"])
                 IN /\ pools' = list_pools(resp.body)
                    /\ cur_pool' = found
                    /\ cur_id' = IF Truth(found) THEN Get(found.d, "id") ELSE JNull
                    /\ pc' = "listed"
                    /\ outcome' = outcome
            ELSE /\ pc' = "done"
                 /\ outcome' = Fail("exception", "")
                 /\ UNCHANGED <<pools, cur_pool, cur_id>>
  /\ UNCHANGED <<inputVars, pureVars, spec, polled, now, waitVars>>

\* state == "absent" and no pool of that name
AbsentNoop ==
  /\ pc = "listed" /\ state = "absent" /\ ~Truth(cur_pool)
  /\ Finish(Exit(FALSE))
  /\ UNCHANGED <<inputVars, pureVars, pools, cur_pool, cur_id, spec, calls, polled, now>>

AbsentCheck ==
  /\ pc = "listed" /\ state = "absent" /\ Truth(cur_pool) /\ check_mode
  /\ Finish(Exit(TRUE))
  /\ UNCHANGED <<inputVars, pureVars, pools, cur_pool, cur_id, spec, calls, polled, now>>

\* api.delete_pool and what follows it
DeleteStep ==
  /\ \E resp \in DeleteResponses :
       /\ calls' = Append(calls, Call("delete", cur_id, EmptyDoc, resp.code))
       /\ IF ~DeleteOk(resp.code) THEN Finish(Fail("exception", ""))
            ELSE IF wait THEN StartWait("absent")
            ELSE Finish(Exit(TRUE))
  /\ UNCHANGED <<inputVars, pureVars, pools, cur_pool, cur_id, spec, polled, now>>

\* DeletePool without the test of check_mode
DeletePool_IgnoresCheckMode ==
  /\ pc = "listed" /\ state = "absent" /\ Truth(cur_pool)
  /\ DeleteStep

DeletePool ==
  /\ pc = "listed" /\ state = "absent" /\ Truth(cur_pool) /\ ~check_mode
  /\ DeleteStep

CreateCheck ==
  /\ pc = "listed" /\ state = "present" /\ ~Truth(cur_pool) /\ check_mode
  /\ spec' = desired_payload(params)
  /\ Finish(Exit(TRUE))
  /\ UNCHANGED <<inputVars, pureVars, pools, cur_pool, cur_id, calls, polled, now>>

\* CreatePool with the call issued again after an error answer
CreatePool_RetriesOnError ==
  /\ pc = "listed" /\ state = "present" /\ ~Truth(cur_pool) /\ ~check_mode
  /\ spec' = desired_payload(params)
  /\ \E resp \in CreateResponses :
       /\ calls' = Append(calls, Call("create", JNull, desired_payload(params), resp.code))
       /\ IF ~StatusOk(resp.code)
            THEN pc' = "listed" /\ outcome' = outcome /\ UNCHANGED waitVars
            ELSE IF WaitsAfterCreate(wait, CreatedId(resp.body.d))
              THEN StartWait("ready")
            ELSE Finish(Exit(TRUE))
  /\ UNCHANGED <<inputVars, pureVars, pools, cur_pool, cur_id, polled, now>>

CreatePool ==
  /\ pc = "listed" /\ state = "present" /\ ~Truth(cur_pool) /\ ~check_mode
  /\ spec' = desired_payload(params)
  /\ \E resp \in CreateResponses :
       /\ calls' = Append(calls, Call("create", JNull, desired_payload(params), resp.code))
       /\ IF ~StatusOk(resp.code) THEN Finish(Fail("exception", ""))
            ELSE IF WaitsAfterCreate(wait, CreatedId(resp.body.d))
              THEN StartWait("ready")
            ELSE Finish(Exit(TRUE))
  /\ UNCHANGED <<inputVars, pureVars, pools, cur_pool, cur_id, polled, now>>

\* the listed pool already matches
PresentNoop ==
  /\ pc = "listed" /\ state = "present" /\ Truth(cur_pool)
  /\ pool_matches(cur_pool.d, params)
  /\ spec' = desired_payload(params)
  /\ Finish(Exit(FALSE))
  /\ UNCHANGED <<inputVars, pureVars, pools, cur_pool, cur_id, calls, polled, now>>

PatchCheck ==
  /\ pc = "listed" /\ state = "present" /\ Truth(cur_pool)
  /\ ~pool_matches(cur_pool.d, params)
  /\ check_mode
  /\ spec' = desired_payload(params)
  /\ Finish(Exit(TRUE))
  /\ UNCHANGED <<inputVars, pureVars, pools, cur_pool, cur_id, calls, polled, now>>

PatchPool ==
  /\ pc = "listed" /\ state = "present" /\ Truth(cur_pool)
  /\ ~pool_matches(cur_pool.d, params)
  /\ ~check_mode
  /\ spec' = desired_payload(params)
  /\ \E resp \in PatchResponses :
       /\ calls' = Append(calls, Call("patch", cur_id, desired_payload(params), resp.code))
       /\ IF ~StatusOk(resp.code) THEN Finish(Fail("exception", ""))
            ELSE IF wait THEN StartWait("ready")
            ELSE Finish(Exit(TRUE))
  /\ UNCHANGED <<inputVars, pureVars, pools, cur_pool, cur_id, polled, now>>

\* the head of the while loop: a new get_pool call, or the return after it
WaitLoop ==
  /\ pc = "wait_loop"
  /\ IF BeforeDeadline(now, deadline)
       THEN /\ pc' = "get_pool"
            /\ polled' = TRUE
            /\ UNCHANGED <<outcome, verdict, returnedAt>>
       ELSE /\ pc' = "done"
            /\ verdict' = "TimedOut"
            /\ returnedAt' = now
            /\ outcome' = AfterWait(desired_state, FALSE, last_status)
            /\ polled' = polled
  /\ UNCHANGED <<inputVars, pureVars, pools, cur_pool, cur_id, spec, calls, now, desired_state,
                 deadline, last_status, last_snapshot, lastPoll, allNone,
                 allCreating, allQuiet, sawConverged>>

\* the answer to get_pool and the rest of the loop body, sleep included
GetPoolReturns ==
  /\ pc = "get_pool"
  /\ \E resp \in PollResponses :
       LET what == PollOutcome(desired_state, resp)
           seen == desired_state = "ready" /\ StatusOk(resp.code)
           st == TokenOf(resp)
       IN /\ lastPoll' = resp
          /\ allNone' = (allNone /\ GetIsNone(resp.code))
          /\ allCreating' = (allCreating /\ StatusOk(resp.code) /\ st = "creating")
          /\ allQuiet' = (allQuiet /\ StatusOk(resp.code) /\ st = "creating"
                            /\ Quiet(resp))
          /\ sawConverged' = (sawConverged \/ what = "Converged")
          /\ last_snapshot' = IF seen THEN resp.body ELSE last_snapshot
          /\ last_status' = IF seen THEN StrOr(st, last_status) ELSE last_status
          /\ CASE what = "raise" ->
                    /\ pc' = "done"
                    /\ outcome' = Fail("exception", "")
                    /\ UNCHANGED <<now, verdict, returnedAt>>
               [] what = "sleep" ->
                    /\ pc' = "wait_loop"
                    /\ now' = now + wait_interval
                    /\ UNCHANGED <<outcome, verdict, returnedAt>>
               [] what = "Failed" ->
                    /\ pc' = "done"
                    /\ verdict' = what
                    /\ returnedAt' = now
                    /\ outcome' = AfterWait(desired_state, FALSE, st)
                    /\ now' = now
               [] OTHER ->
                    /\ pc' = "done"
                    /\ verdict' = what
                    /\ returnedAt' = now
                    /\ outcome' = AfterWait(desired_state, TRUE, StrOr(st, "ready"))
                    /\ now' = now
  /\ UNCHANGED <<inputVars, pureVars, pools, cur_pool, cur_id, spec, calls, polled, desired_state,
                 deadline>>

\* the clock advances while wait_until runs
Tick ==
  /\ pc \in {"wait_loop", "get_pool"}
  /\ now < MaxNow
  /\ now' = now + 1
  /\ UNCHANGED <<pc, inputVars, pureVars, pools, cur_pool, cur_id, spec, calls, polled, waitVars,
                 outcome>>

Next ==
  \/ ListPools
  \/ AbsentNoop
  \/ AbsentCheck
  \/ DeletePool
  \/ CreateCheck
  \/ CreatePool
  \/ PresentNoop
  \/ PatchCheck
  \/ PatchPool
  \/ WaitLoop
  \/ GetPoolReturns
  \/ Tick

Spec == Init /\ [][Next]_vars

\* the run makes progress and the clock advances
FairSpec == Spec /\ WF_vars(Next) /\ WF_vars(Tick)

(***************************************************************************)
(* The pure functions applied to every specification of DesiredSpecs       *)
(***************************************************************************)
InitPure ==
  /\ pc = "project"
  /\ params \in DesiredSpecs
  /\ state = "present"
  /\ wait = FALSE
  /\ wait_timeout = 0
  /\ wait_interval = 0
  /\ check_mode = FALSE
  /\ InitRest

\* spec = desired_payload(params)
Project ==
  /\ pc = "project"
  /\ spec' = desired_payload(params)
  /\ pc' = "projected"
  /\ UNCHANGED <<inputVars, pureVars, pools, cur_pool, cur_id, calls, polled, now, waitVars,
                 outcome>>

\* d without the key
Drop(d, key) == [x \in DOMAIN d \ {key} |-> d[x]]

ThreeTags == JList(<<JStr("c"), JStr("a"), JStr("b")>>)
TwoTags == JList(<<JStr("b"), JStr("a")>>)

\* the live documents a projected payload is diffed against
LiveDocs(want, p) ==
  {want,
   LivePool(p),
   Put(want, "tags", ThreeTags),
   Put(want, "tags", TwoTags),
   Put(want, "node_type", JStr("PLAY2-NANO")),
   Drop(want, "root_volume"),
   Put(want, "autoscaling", JStr("true"))}

\* pool_matches(pool, params)
Diff ==
  /\ pc = "projected"
  /\ \E live \in LiveDocs(spec, params) :
       /\ pool' = live
       /\ result' = Result("pool_matches", FALSE, "", pool_matches(live, params))
  /\ pc' = "matched"
  /\ UNCHANGED <<inputVars, pools, cur_pool, cur_id, spec, calls, polled, now,
                 waitVars, outcome>>

NextPure == Project \/ Diff

PureSpec == InitPure /\ [][NextPure]_vars

(***************************************************************************)
(* The status heuristics applied to documents of many shapes                *)
(***************************************************************************)
\* the document with the fields of a and of b
Merge(a, b) == [x \in DOMAIN a \cup DOMAIN b |-> IF x \in DOMAIN b THEN b[x] ELSE a[x]]

ReadyCond == JDict([type |-> JStr("Ready"), status |-> JStr("True")])
UnreadyCond == JDict([type |-> JStr("Ready"), status |-> JStr("False")])
OtherCond == JDict([type |-> JStr("DiskPressure"), status |-> JStr("True")])

\* top-level status fields
StatusParts ==
  {EmptyDoc,
   [status |-> JStr("Ready")],
   [status |-> JStr("creating")],
   [status |-> JStr("ERROR")],
   [status |-> JNull],
   [status |-> JDict([state |-> JStr("running")])],
   [pool_status |-> JStr("scaling"), phase |-> JStr("active")],
   [status |-> JNull, phase |-> JStr("active")],
   [phase |-> JStr("failed")]}

\* condition lists and the boolean ready field
CondParts ==
  {EmptyDoc,
   [conditions |-> JList(<<OtherCond, ReadyCond>>)],
   [pool_conditions |-> JList(<<UnreadyCond>>)],
   [conditions |-> JList(<<JStr("Ready")>>)],
   [ready |-> JBool(TRUE)],
   [conditions |-> JList(<<UnreadyCond>>), ready |-> JInt(1)]}

\* size fields
SizeParts ==
  {EmptyDoc,
   [desired_size |-> JInt(3), current_size |-> JInt(3)],
   [desired_size |-> JInt(3), current_size |-> JInt(1)],
   [desiredNodes |-> JInt(1)],
   [size |-> JInt(2)],
   [size |-> JInt(2), current_size |-> JInt(1)]}

\* node lists
NodeParts ==
  {EmptyDoc,
   [nodes |-> JList(<<>>)],
   [nodes |-> JList(<<ReadyNode>>)],
   [nodes |-> JList(<<ReadyNode, JDict([status |-> JStr("failed")])>>)],
   [nodes |-> JList(<<JDict([status |-> JStr("creating")]), ReadyNode>>)],
   [nodes |-> JList(<<JDict([status |-> JStr("unknown"),
                             conditions |-> JList(<<OtherCond, ReadyCond>>)])>>)],
   [nodes |-> JList(<<JDict([conditions |-> JList(<<UnreadyCond>>)])>>)],
   [nodes |-> JList(<<JDict([conditions |-> JList(<<UnreadyCond, ReadyCond>>)])>>)],
   [nodes |-> JList(<<JDict([conditions |-> JList(<<JStr("Ready"), ReadyCond>>)])>>)],
   [node_pool_nodes |-> JList(<<ReadyNode, ReadyNode>>)],
   [nodes |-> JList(<<>>), node_pool_nodes |-> JList(<<ReadyNode>>)],
   [nodes |-> JList(<<JStr("node-1")>>)]}

\* the documents the heuristics are applied to, bare or in an envelope
StatusDocs ==
  {Merge(Merge(st, cd), Merge(sz, nd)) :
     st \in StatusParts, cd \in CondParts, sz \in SizeParts, nd \in NodeParts}
    \cup {[pool |-> JDict(st)] : st \in StatusParts}

InitStatus ==
  /\ pc = "classify"
  /\ params = FixedSpec
  /\ state = "present"
  /\ wait = FALSE
  /\ wait_timeout = 0
  /\ wait_interval = 0
  /\ check_mode = FALSE
  /\ pools = <<>>
  /\ cur_pool = JNull
  /\ cur_id = JNull
  /\ spec = EmptyDoc
  /\ calls = <<>>
  /\ polled = FALSE
  /\ desired_state = ""
  /\ now = 0
  /\ deadline = 0
  /\ last_status = ""
  /\ last_snapshot = JNull
  /\ verdict = ""
  /\ lastPoll = NoPoll
  /\ allNone = TRUE
  /\ allCreating = TRUE
  /\ allQuiet = TRUE
  /\ sawConverged = FALSE
  /\ returnedAt = 0
  /\ outcome = NoOutcome
  /\ pool \in StatusDocs
  /\ result = NoResult

\* the function has been applied to the document
Classified(r) ==
  /\ pc = "classify"
  /\ result' = r
  /\ pc' = "classified"
  /\ UNCHANGED <<inputVars, pool, pools, cur_pool, cur_id, spec, calls, polled, now,
                 waitVars, outcome>>

\* st = extract_status(p)
ExtractStatus ==
  LET st == extract_status(pool)
  IN Classified(IF st.exc THEN Result("extract_status", TRUE, "", FALSE)
                ELSE Result("extract_status", FALSE, st.val, FALSE))

\* sizes_reached(p)
SizesReached == Classified(Result("sizes_reached", FALSE, "", sizes_reached(pool)))

\* nodes_ready(p)
NodesReady ==
  LET r == nodes_ready(pool)
  IN Classified(IF r.exc THEN Result("nodes_ready", TRUE, "", FALSE)
                ELSE Result("nodes_ready", FALSE, "", r.val))

NextStatus == ExtractStatus \/ SizesReached \/ NodesReady

StatusSpec == InitStatus /\ [][NextStatus]_vars

TypeOK ==
  /\ pc \in {"start", "listed", "wait_loop", "get_pool", "done", "project", "projected",
            "matched", "classify", "classified"}
  /\ verdict \in {"", "Converged", "Failed", "Absent", "TimedOut"}
  /\ now \in 0..(MaxNow + MaxInterval)

(***************************************************************************)
(* Properties                                                              *)
(***************************************************************************)
\* the create, patch and delete calls issued so far
IsMutation(c) == c.op \in {"create", "patch", "delete"}
Mutations == SelectSeq(calls, IsMutation)

\* the list call was answered with a 2xx status
ListSucceeded == Len(calls) >= 1 /\ calls[1].code \in 200..299

\* the backend accepted the call
Accepted(c) == c.code \in 200..299 \/ (c.op = "delete" /\ c.code = 404)

\* a pool with the target name is listed; the first such pool
IsNamed(p) == Get(p.d, "name") = params["name"]
ExistsNamed == \E i \in 1..Len(pools) : IsNamed(pools[i])
NamedPool == pools[FirstIdx(pools, IsNamed)].d

\* the live document stores every field of the payload, tags in any order
SameFields(live, want) ==
  \A key \in DOMAIN want :
    /\ key \in DOMAIN live
    /\ IF key = "tags"
         THEN /\ Len(live[key].l) = Len(want[key].l)
              /\ {live[key].l[i] : i \in 1..Len(live[key].l)}
                   = {want[key].l[i] : i \in 1..Len(want[key].l)}
         ELSE live[key] = want[key]

\* the listed pool matches the desired specification
NamedMatches ==
  \/ pool_matches(NamedPool, params)
  \/ SameFields(NamedPool, desired_payload(params))

\* the latest answer of a wait for a present pool is a document
PolledDocument == desired_state = "ready" /\ lastPoll.code \in 200..299

\* C1: in a wait for a present pool, a polled document whose status token is
\* error, failed or degraded ends the wait as Failed and the run as a failure,
\* never as Converged, whatever the size and node signals say.
C1_FailedStatusEndsWaitAsFailed ==
  (PolledDocument /\ TokenOf(lastPoll) \in FAIL_VALUES)
    => (verdict = "Failed" /\ outcome.kind = "fail")

\* what a dry run has to report as changed
WouldChange ==
  IF state = "absent" THEN ExistsNamed
  ELSE ~ExistsNamed \/ ~pool_matches(NamedPool, params)

\* C2: in check mode no create, patch or delete call and no poll is issued,
\* and once the list call has succeeded the run reports changed = true exactly
\* when the pool exists (absent) or is missing or mismatched (present).
C2_DryRunIssuesNoMutation ==
  check_mode =>
    /\ Mutations = <<>>
    /\ ~polled
    /\ (pc = "done" /\ ListSucceeded => outcome = Exit(WouldChange))

C2_Witness ==
  /\ check_mode /\ pc = "done" /\ state = "present"
  /\ ExistsNamed /\ ~pool_matches(NamedPool, params)
  /\ outcome = Exit(TRUE)

\* the branch of a run that is not a dry run decides the one mutating call
OneCallPerBranch ==
  /\ (state = "present" /\ ~ExistsNamed) =>
       /\ Len(Mutations) = 1
       /\ Mutations[1].op = "create"
       /\ Mutations[1].payload = desired_payload(params)
  /\ (state = "present" /\ ExistsNamed /\ ~pool_matches(NamedPool, params)) =>
       /\ Len(Mutations) = 1
       /\ Mutations[1].op = "patch"
       /\ Mutations[1].id = Get(NamedPool, "id")
  /\ (state = "absent" /\ ExistsNamed) =>
       /\ Len(Mutations) = 1
       /\ Mutations[1].op = "delete"
       /\ Mutations[1].id = Get(NamedPool, "id")

\* the run has left the branch on the listed pool
BranchTaken == pc \notin {"start", "listed"} /\ ~check_mode /\ ListSucceeded

\* C3 as stated: the branch decides the one mutating call, and with wait
\* disabled no poll follows the mutation and the run reports changed = true.
C3_AsStated ==
  BranchTaken =>
    /\ OneCallPerBranch
    /\ (~wait /\ Mutations # <<>>) => (~polled /\ outcome = Exit(TRUE))

\* C3: the branch decides the one mutating call; with wait disabled no poll
\* follows the mutation, and the run reports changed = true if the backend
\* accepted the mutating call and a failure otherwise.
C3_BranchDecidesTheCall ==
  BranchTaken =>
    /\ OneCallPerBranch
    /\ (~wait /\ Mutations # <<>>) =>
         /\ ~polled
         /\ pc = "done"
         /\ outcome = IF Accepted(Mutations[1]) THEN Exit(TRUE)
                      ELSE Fail("exception", "")

C3_Witness ==
  /\ BranchTaken /\ ~wait /\ pc = "done"
  /\ Len(Mutations) = 1 /\ Mutations[1].op = "patch" /\ Accepted(Mutations[1])
  /\ Mutations[1].payload["node_type"] # Get(NamedPool, "node_type")
  /\ outcome = Exit(TRUE)

\* C4: when the listed pool matches the desired specification (present), or
\* no pool has the target name (absent), no create, patch or delete call and
\* no poll is issued, and the run reports changed = false.
C4_NoOpWhenAlreadyConverged ==
  (/\ pc \notin {"start", "listed"}
   /\ ListSucceeded
   /\ \/ state = "present" /\ ExistsNamed /\ NamedMatches
      \/ state = "absent" /\ ~ExistsNamed)
    => (Mutations = <<>> /\ ~polled /\ pc = "done" /\ outcome = Exit(FALSE))

C4_Witness ==
  /\ pc = "done" /\ ~check_mode /\ state = "present"
  /\ ExistsNamed /\ NamedMatches
  /\ Get(NamedPool, "tags") # params["tags"]
  /\ outcome = Exit(FALSE)

\* C5: with wait enabled and no dry run, changed = true after a create or a
\* patch is reported only after a poll returned a converged document, and after
\* a delete only after a poll returned not-found.
C5_SuccessOnlyAfterConvergence ==
  (pc = "done" /\ ~check_mode /\ wait /\ Mutations # <<>> /\ outcome = Exit(TRUE))
    => IF Mutations[1].op = "delete"
         THEN lastPoll.code = 404
         ELSE sawConverged

\* C6: in a wait for a present pool a 404 answer is never terminal: the loop
\* goes on polling or times out later, and a wait in which every answer was a
\* 404 ends as TimedOut only.
C6_NotFoundIsTransientForPresent ==
  desired_state = "ready" =>
    /\ lastPoll.code = 404 =>
         /\ verdict \in {"", "TimedOut"}
         /\ pc = "done" => verdict = "TimedOut"
         /\ verdict = "" => outcome = NoOutcome
    /\ (allNone /\ pc = "done") => (verdict = "TimedOut" /\ outcome.kind = "fail")

C6_Witness ==
  /\ desired_state = "ready" /\ lastPoll.code = 404 /\ allNone
  /\ verdict = "TimedOut" /\ outcome.kind = "fail"

\* C7: in a wait for an absent pool the first 404 answer ends the wait as
\* Absent, a document of any status keeps the loop polling, and the wait
\* returns as Absent or TimedOut only.
C7_AbsentWaitEndsAbsentOrTimedOut ==
  desired_state = "absent" =>
    /\ verdict \in {"", "Absent", "TimedOut"}
    /\ lastPoll.code = 404 <=> verdict = "Absent"
    /\ verdict = "Absent" => (pc = "done" /\ outcome = Exit(TRUE))
    /\ lastPoll.code \in 200..299 =>
         /\ pc = "done" => verdict = "TimedOut"
         /\ verdict = "" => outcome = NoOutcome

C7_Witness ==
  /\ desired_state = "absent" /\ verdict = "Absent" /\ ~allNone
  /\ outcome = Exit(TRUE)

\* the answers that end wait_until through a return inside the loop
Terminal == {"Converged", "Failed", "Absent"}

\* C8: with an advancing clock the wait loop terminates; no get_pool call is
\* started at or after the deadline; and the answer to a call started before
\* the deadline decides the verdict even when the deadline has passed.
C8_WaitTerminatesAtDeadline ==
  /\ (pc \in {"wait_loop", "get_pool"}) ~> (pc = "done")
  /\ [][(pc = "wait_loop" /\ pc' = "get_pool") => now < deadline]_vars
  /\ [][(pc = "get_pool" /\ pc' # "get_pool"
           /\ PollOutcome(desired_state, lastPoll') \in Terminal)
          => verdict' = PollOutcome(desired_state, lastPoll')]_vars

C8_Witness ==
  /\ verdict \in Terminal
  /\ returnedAt >= deadline
  /\ pc = "done"

\* a wait for the created pool that polled at least once has ended
CreateWaitEnded ==
  /\ pc = "done" /\ desired_state = "ready" /\ lastPoll # NoPoll
  /\ Mutations[1].op = "create"

\* the wait timed out on "creating" and the failure carries that status
TimedOutCreating ==
  /\ verdict = "TimedOut"
  /\ last_status = "creating"
  /\ outcome = Fail("timeout", "creating")

\* C9 as stated: after a successful create, if every poll returns a document
\* whose status token is "creating", the wait ends TimedOut with last status
\* "creating" and the run fails carrying that status.
C9_AsStated == (CreateWaitEnded /\ allCreating) => TimedOutCreating

\* C9: ... if every poll returns a document whose status token is "creating"
\* and for which neither the size signal nor the node signal holds, the wait
\* ends TimedOut with last status "creating" and the run fails carrying it.
C9_CreatingUntilDeadlineTimesOut == (CreateWaitEnded /\ allQuiet) => TimedOutCreating

C9_Witness == CreateWaitEnded /\ allQuiet /\ TimedOutCreating

\* C10: the projected payload has autoscaling = false and neither min_size nor
\* max_size when autoscaling is disabled, and autoscaling = true and no size
\* when it is enabled, whatever size, min_size and max_size are.
C10_SizingFieldsAreExclusive ==
  pc = "projected" =>
    IF params["autoscaling"] = JBool(TRUE)
      THEN spec["autoscaling"] = JBool(TRUE) /\ "size" \notin DOMAIN spec
      ELSE /\ spec["autoscaling"] = JBool(FALSE)
           /\ "min_size" \notin DOMAIN spec
           /\ "max_size" \notin DOMAIN spec

C10_Witness ==
  /\ pc = "projected"
  /\ params["autoscaling"] = JBool(TRUE)
  /\ params["size"] = JInt(2)
  /\ "size" \notin DOMAIN spec
  /\ Get(spec, "min_size") = JInt(1)

\* the orderings of the elements of a list
Perms(l) ==
  {[i \in 1..Len(l) |-> l[f[i]]] :
     f \in {g \in [1..Len(l) -> 1..Len(l)] :
              \A i, j \in 1..Len(l) : g[i] = g[j] => i = j}}

\* the orderings of the tags of a document, the document's own when it has no list
TagOrders(d) ==
  IF "tags" \in DOMAIN d /\ IsList(d["tags"])
    THEN {Put(d, "tags", JList(t)) : t \in Perms(d["tags"].l)}
    ELSE {d}

\* C11: matches is reflexive: the projected payload of a specification, taken
\* as the live document (alone or with the id and status the backend adds),
\* matches that specification.
C11_MatchesIsReflexive ==
  (pc = "matched" /\ pool \in {spec, LivePool(params)}) => result.bool

C11_Witness ==
  /\ pc = "matched" /\ pool = spec /\ result.bool
  /\ "tags" \in DOMAIN spec
  /\ "size" \in DOMAIN spec["root_volume"].d

\* C12: the verdict of matches is the same for every ordering of the tags of
\* the live document and every ordering of the tags of the specification.
C12_TagOrderIsIrrelevant ==
  pc = "matched" =>
    \A live \in TagOrders(pool), want \in TagOrders(params) :
      pool_matches(live, want) = result.bool

C12_Witness ==
  /\ pc = "matched" /\ result.bool
  /\ "tags" \in DOMAIN pool
  /\ pool["tags"] # params["tags"]
  /\ IsList(params["tags"]) /\ Len(params["tags"].l) = 2

\* the one mutating call of the run is a delete; delete_pool raised on its answer
DeleteIssued == Mutations # <<>> /\ Mutations[1].op = "delete"
DeleteRaised == pc = "done" /\ outcome = Fail("exception", "") /\ desired_state = ""

\* C13 as stated: delete succeeds on 204 or 404 and fails with a transport
\* error on every other response status.
C13_AsStated ==
  DeleteIssued => (DeleteRaised <=> Mutations[1].code \notin {204, 404})

\* C13: delete succeeds on 204, on 404 and on every other 2xx status, and fails
\* with a transport error on every status outside these.
C13_DeleteAcceptsNotFoundAnd2xx ==
  DeleteIssued =>
    (DeleteRaised <=> Mutations[1].code \notin ({204, 404} \cup 200..299))

C13_Witness ==
  /\ DeleteIssued /\ Mutations[1].code = 404
  /\ ~wait /\ pc = "done" /\ outcome = Exit(TRUE)

\* the function fn has been applied to the document
Applied(fn) == pc = "classified" /\ result.fn = fn

\* C14: the status extractor is total: on every document, also one without a
\* status field, with non-object condition entries or with non-string status
\* values, it returns a string and does not fail.
C14_ExtractStatusIsTotal == Applied("extract_status") => ~result.exc

\* every top-level status key of the document holds a string or null
PlainTop(d) ==
  \A i \in 1..Len(TopStatusKeys) :
    TopStatusKeys[i] \in DOMAIN d => d[TopStatusKeys[i]].k \in {"str", "null"}

\* a condition entry of type "ready" with a truthy status
IsReadyEntry(c) ==
  /\ IsDict(c)
  /\ IsStr(Get(c.d, "type")) /\ Lower(c.d["type"].s) = "ready"
  /\ Lower(PyStr(Get(c.d, "status"))) \in {"true", "1", "ready"}

\* the token of the ordered chain: the first top-level key holding a string,
\* else a ready condition, else the boolean ready field, else ""
ChainStatus(d) ==
  LET HoldsStr(key) == key \in DOMAIN d /\ IsStr(d[key])
      i == FirstIdx(TopStatusKeys, HoldsStr)
      entries == CondEntries(d, 1)
  IN IF i # 0 THEN Lower(d[TopStatusKeys[i]].s)
     ELSE IF \E j \in 1..Len(entries) : IsReadyEntry(entries[j]) THEN "ready"
     ELSE IF Lower(PyStr(Get(d, "ready"))) \in {"true", "1", "yes", "ready"} THEN "ready"
     ELSE ""

\* C15: the extractor is an ordered fall-through chain: the first of status,
\* pool_status, phase that holds a string gives the lowercased token; when none
\* does (a key holding null included) a ready condition gives "ready", then the
\* boolean ready field, and only then the token is empty.
C15_ExtractStatusFallsThrough ==
  (Applied("extract_status") /\ ~result.exc /\ PlainTop(Unwrap(pool)))
    => result.str = ChainStatus(Unwrap(pool))

\* the desired count and the separately observed current count of a document
DeclaredDesired(d) ==
  PyOr(PyOr(Get(d, "desired_size"), Get(d, "desiredNodes")), Get(d, "size"))
ObservedCurrent(d) ==
  LET field == PyOr(Get(d, "current_size"), Get(d, "currentNodes"))
  IN IF field # JNull THEN field
     ELSE IF IsList(Get(d, "nodes")) THEN JInt(Len(d["nodes"].l))
     ELSE JNull

\* C16: the size signal reports converged only when the document exposes a
\* desired count and a separately observed current count (a current-count
\* field, else the length of a node list) with current >= desired; it does so
\* for desired_size = current_size = 3 and not for a document with size alone.
C16_SizeSignalNeedsObservedCount ==
  Applied("sizes_reached") =>
    /\ result.bool =>
         /\ DeclaredDesired(pool) # JNull
         /\ ObservedCurrent(pool) # JNull
         /\ ObservedCurrent(pool).n >= DeclaredDesired(pool).n
    /\ pool = [desired_size |-> JInt(3), current_size |-> JInt(3)] => result.bool
    /\ pool = [size |-> JInt(2)] => ~result.bool

\* a condition entry of type "ready", and one with a truthy status
IsReadyCond(c) == IsDict(c) /\ _as_lower_str(Get(c.d, "type")) = "ready"
IsTrueCond(c) == Lower(PyStr(Get(c.d, "status"))) \in {"true", "1", "yes", "ready"}

\* node n is outside the failed set and is in the ready set or passes Cond
IsReadyNode(n, Cond(_)) ==
  /\ IsDict(n)
  /\ _as_lower_str(Get(n.d, "status")) \notin FAIL_VALUES
  /\ \/ _as_lower_str(Get(n.d, "status")) \in READY_VALUES
     \/ IsList(Get(n.d, "conditions")) /\ Cond(n.d["conditions"].l)

\* some Ready condition of the list is truthy
SomeReadyCond(conds) ==
  \E j \in 1..Len(conds) : IsReadyCond(conds[j]) /\ IsTrueCond(conds[j])

\* the first Ready condition of the list is truthy and only objects precede it
FirstReadyCond(conds) ==
  LET i == FirstIdx(conds, IsReadyCond)
  IN /\ i # 0
     /\ IsTrueCond(conds[i])
     /\ \A j \in 1..i : IsDict(conds[j])

\* the node list of a document: nodes, or node_pool_nodes when nodes is empty
NodeList(d) == PyOr(Get(d, "nodes"), Get(d, "node_pool_nodes"))

\* the document has a non-empty node list of which every node is ready
EveryNodeReady(d, Cond(_)) ==
  /\ IsList(NodeList(d))
  /\ Len(NodeList(d).l) > 0
  /\ \A j \in 1..Len(NodeList(d).l) : IsReadyNode(NodeList(d).l[j], Cond)

\* C17 as stated: the node signal reports converged exactly when the document
\* has a non-empty node list of which every node is outside the failed set and
\* is in the ready set or has a Ready condition with a truthy status.
C17_AsStated ==
  Applied("nodes_ready") =>
    ((~result.exc /\ result.bool) <=> EveryNodeReady(pool, SomeReadyCond))

\* C17: the node signal reports converged exactly when the document has a
\* non-empty node list of which every node is outside the failed set and is in
\* the ready set or has a truthy status on the first of its Ready conditions,
\* preceded by object entries only; never for an empty or missing node list.
C17_NodeSignalNeedsEveryNodeReady ==
  Applied("nodes_ready") =>
    ((~result.exc /\ result.bool) <=> EveryNodeReady(pool, FirstReadyCond))

C17_Witness ==
  /\ Applied("nodes_ready") /\ result.bool
  /\ "nodes" \in DOMAIN pool
  /\ _as_lower_str(Get(pool["nodes"].l[1].d, "status")) \notin READY_VALUES

\* a call, or the last poll, was answered with a status the client rejects
Rejected(c) == ~Accepted(c)
RejectedPoll == lastPoll.code \notin (200..299 \cup {404, 0})
SomeRejected == RejectedPoll \/ \E i \in 1..Len(calls) : Rejected(calls[i])

\* C18: a non-2xx answer to list, create or patch, to delete other than 404,
\* or to a poll other than 404, ends the run with a failure outcome and no
\* backend call follows it: the call is not retried and the wait loop is left.
C18_RejectedAnswerEndsTheRun ==
  [][/\ SomeRejected' =>
          /\ pc' = "done"
          /\ outcome'.kind = "fail"
          /\ \A i \in 1..Len(calls') : Rejected(calls'[i]) => i = Len(calls') /\ ~polled'
     /\ SomeRejected => UNCHANGED <<pc, calls, polled, lastPoll>>]_vars

C18_Witness ==
  /\ pc = "done" /\ outcome.kind = "fail"
  /\ RejectedPoll /\ verdict = ""
  /\ Len(Mutations) = 1 /\ Accepted(Mutations[1])

\* C19: a run issues at most one mutating call; once a wait has ended Failed
\* or TimedOut the run has ended in failure with that one call and no
\* compensating or repeated one.
C19_AtMostOneMutation ==
  /\ Len(Mutations) <= 1
  /\ verdict \in {"Failed", "TimedOut"} =>
       /\ pc = "done"
       /\ outcome.kind = "fail"
       /\ Len(Mutations) = 1
       /\ Mutations[1] = calls[Len(calls)]

C19_Witness ==
  /\ verdict = "Failed"
  /\ Len(Mutations) = 1 /\ Mutations[1].op = "create"
  /\ outcome.kind = "fail"

\* the last status after a poll: the token of the polled document when it is
\* not empty, the last status before the poll otherwise
MostRecentToken(before, resp) ==
  IF desired_state = "ready" /\ TokenOf(resp) # "" THEN TokenOf(resp) ELSE before

\* C20: the last status of a wait for a present pool is the most recent
\* non-empty token polled; when the wait ends TimedOut the status it returns
\* is that token and is in neither the failed nor the ready set; when it ends
\* Failed the status it returns is in the failed set.
C20_LastStatusTellsFailedFromTimedOut ==
  [][/\ pc = "get_pool" /\ pc' # "get_pool" =>
          last_status' = MostRecentToken(last_status, lastPoll')
     /\ verdict' = "TimedOut" /\ desired_state' = "ready" =>
          /\ last_status' \notin (FAIL_VALUES \cup READY_VALUES)
          /\ outcome'.last = StrOr(last_status', "inconnu")
     /\ verdict' = "Failed" => outcome'.last \in FAIL_VALUES]_vars

C20_Witness ==
  /\ verdict = "TimedOut" /\ desired_state = "ready"
  /\ last_status = "creating" /\ outcome.last = "creating"
  /\ lastPoll.code = 200 /\ TokenOf(lastPoll) = ""

====
